---- MODULE Spec2Model ----
(***************************************************************************)
(* A model of libimagstore's Store (src/libimagstore/src/store.rs): the    *)
(* cache-slot table behind one reader/writer lock, the borrow status of    *)
(* the slots, the FileLockEntry handles and their write-back on drop, the  *)
(* hook pipeline around create/retrieve/update/delete, and the files of    *)
(* the store directory.                                                    *)
(***************************************************************************)
EXTENDS Integers, Sequences, FiniteSets, TLC

(***************************************************************************)
(* Bounds of the model.                                                    *)
(***************************************************************************)
\* Aspects configured per lifecycle point.
NumAspects == 1
\* Lines of the content of an entry that is serialised and parsed on its own.
MaxLines == 4
\* Aspects of a list of aspects whose fold is followed call by call.
MaxAspects == 4
\* Elements of the array a.array of a header as it was parsed.
MaxLen == 2
\* Characters of the version string a module path is built with.
MaxVersionLen == 5

Threads == {"t1", "t2"}
Ids == {"e1"}

(***************************************************************************)
(* toml::Value, as far as the Store looks into it.                         *)
(***************************************************************************)
TString(s) == [k |-> "String", v |-> s]
TTable(f) == [k |-> "Table", v |-> f]
TArray(s) == [k |-> "Array", v |-> s]

\* version!(): the crate version, as a string of characters.
version == <<"0", ".", "1", ".", "0">>

Digits == {"0", "1", "2", "3", "4", "5", "6", "7", "8", "9"}

IsNumeric(s) == Len(s) > 0 /\ \A i \in 1..Len(s) : s[i] \in Digits

SetMin(S) == CHOOSE x \in S : \A y \in S : x <= y
SetMax(S) == CHOOSE x \in S : \A y \in S : x >= y

\* semver::Version::parse(s).is_ok(): major.minor.patch, all numeric.
VersionParses(s) ==
    LET dots == {i \in 1..Len(s) : s[i] = "."}
    IN  /\ Cardinality(dots) = 2
        /\ IsNumeric(SubSeq(s, 1, SetMin(dots) - 1))
        /\ IsNumeric(SubSeq(s, SetMin(dots) + 1, SetMax(dots) - 1))
        /\ IsNumeric(SubSeq(s, SetMax(dots) + 1, Len(s)))

build_default_header ==
    TTable([imag |-> TTable([links |-> TArray(<<>>), version |-> TString(version)])])

\* The header after the caller deleted imag.version through the handle.
NoVersionHeader == TTable([imag |-> TTable([links |-> TArray(<<>>)])])

\* The headers a caller leaves in an entry in this model.
Headers == {build_default_header, NoVersionHeader}

has_main_section(t) == "imag" \in DOMAIN t /\ t["imag"].k = "Table"

has_imag_version_in_main_section(t) ==
    IF t["imag"].k = "Table"
    THEN LET sec == t["imag"].v
         IN  IF "version" \in DOMAIN sec
             THEN IF sec["version"].k = "String"
                  THEN VersionParses(sec["version"].v)
                  ELSE FALSE
             ELSE FALSE
    ELSE FALSE

has_only_tables(t) == \A key \in DOMAIN t : t[key].k = "Table"

\* "Ok" or the ParserErrorKind.
verify_header(t) ==
    IF ~has_main_section(t) THEN "MissingMainSection"
    ELSE IF ~has_imag_version_in_main_section(t) THEN "MissingVersionInfo"
    ELSE IF ~has_only_tables(t) THEN "NonTableInBaseTable"
    ELSE "Ok"

\* A faulty verify: one that accepts every table.
verify_accepts_all(h) == IF h.k = "Table" THEN "Ok" ELSE "HeaderTypeFailure"

\* EntryHeader::verify / Entry::verify: "Ok" or the StoreErrorKind
\* (From<ParserError> for StoreError makes every parser error MalformedEntry).
verify(h) ==
    IF h.k = "Table"
    THEN IF verify_header(h.v) = "Ok" THEN "Ok" ELSE "MalformedEntry"
    ELSE "HeaderTypeFailure"

\* The ParserErrorKind that From<ParserError> boxes as the cause of the
\* MalformedEntry of verify, or "none".
verify_cause(h) == IF h.k = "Table" THEN verify_header(h.v) ELSE "none"

(***************************************************************************)
(* The header path operations of EntryHeader: read, insert, set, delete.   *)
(* A path ("a.array.5") is the sequence of its pieces between separators   *)
(* (<<"a", "array", "5">>).  A Result is [res |-> "Ok", ...], [res |-> the *)
(* StoreErrorKind] or [res |-> "panic"]; an Option is <<>> or <<v>>.       *)
(***************************************************************************)
TInteger(n) == [k |-> "Integer", v |-> n]

Key(s) == [t |-> "Key", s |-> s]
Index(i) == [t |-> "Index", i |-> i]

Numerals == <<"0", "1", "2", "3", "4", "5", "6", "7", "8", "9">>

\* usize::from_str on a piece: <<n>> or <<>>.
usize_from_str(s) ==
    IF \E n \in 1..Len(Numerals) : Numerals[n] = s
    THEN <<(CHOOSE n \in 1..Len(Numerals) : Numerals[n] = s) - 1>>
    ELSE <<>>

\* A faulty tokenize: one for which every piece is a key.
tokenize_keys_only(spec) == [j \in 1..Len(spec) |-> Key(spec[j])]

\* EntryHeader::tokenize: a piece that is a number is an Index, any other a Key.
tokenize(spec) ==
    [j \in 1..Len(spec) |->
        IF usize_from_str(spec[j]) # <<>> THEN Index(usize_from_str(spec[j])[1])
        ELSE Key(spec[j])]

\* A faulty extract_from_table: one for which a missing key is a type failure.
extract_from_table_lenient(v, s) ==
    IF v.k = "Table" /\ s \in DOMAIN v.v THEN [res |-> "Ok", v |-> v.v[s]]
    ELSE [res |-> "HeaderPathTypeFailure"]

extract_from_table(v, s) ==
    IF v.k = "Table"
    THEN IF s \in DOMAIN v.v THEN [res |-> "Ok", v |-> v.v[s]]
         ELSE [res |-> "HeaderKeyNotFound"]
    ELSE [res |-> "HeaderPathTypeFailure"]

\* The test is a.len() < i: with i = a.len() the index expression a[i] panics.
extract_from_array(v, i) ==
    IF v.k = "Array"
    THEN IF Len(v.v) < i THEN [res |-> "HeaderKeyNotFound"]
         ELSE IF i < Len(v.v) THEN [res |-> "Ok", v |-> v.v[i + 1]]
         ELSE [res |-> "panic"]
    ELSE [res |-> "HeaderPathTypeFailure"]

extract(v, token) ==
    IF token.t = "Key" THEN extract_from_table(v, token.s)
    ELSE extract_from_array(v, token.i)

RECURSIVE walk_header(_, _)
\* EntryHeader::walk_header: the value the tokens lead to from v.
walk_header(v, tokens) ==
    IF tokens = <<>> THEN [res |-> "Ok", v |-> v]
    ELSE LET x == extract(v, Head(tokens))
         IN  IF x.res # "Ok" THEN x ELSE walk_header(x.v, Tail(tokens))

RECURSIVE write_through(_, _, _)
\* The value v after w was written through the reference that walk_header
\* gave for the tokens.
write_through(v, tokens, w) ==
    IF tokens = <<>> THEN w
    ELSE IF Head(tokens).t = "Key"
    THEN [v EXCEPT !.v[Head(tokens).s] = write_through(@, Tail(tokens), w)]
    ELSE [v EXCEPT !.v[Head(tokens).i + 1] = write_through(@, Tail(tokens), w)]

\* A faulty insertion into a table: one that loses the other keys.
table_insert_alone(t, s, v) == [key \in {s} |-> v]

\* BTreeMap::insert and BTreeMap::remove on a table.
table_insert(t, s, v) == [key \in DOMAIN t \cup {s} |-> IF key = s THEN v ELSE t[key]]
table_remove(t, s) == [key \in DOMAIN t \ {s} |-> t[key]]

\* A faulty removal: one that fills the gap with the last element.
remove_by_swap(a, i) ==
    [j \in 1..(Len(a) - 1) |-> IF j = i + 1 THEN a[Len(a)] ELSE a[j]]

\* Vec::remove(i): the later elements move down by one.
remove(a, i) == [j \in 1..(Len(a) - 1) |-> IF j <= i THEN a[j] ELSE a[j + 1]]

\* A faulty swap-removal: one that moves the later elements down instead.
swap_remove_shifting(a, i) ==
    [j \in 1..(Len(a) - 1) |-> IF j <= i THEN a[j] ELSE a[j + 1]]

\* Vec::swap_remove(i): the last element takes the place of the removed one.
swap_remove(a, i) ==
    [j \in 1..(Len(a) - 1) |-> IF j = i + 1 THEN a[Len(a)] ELSE a[j]]

Front(s) == SubSeq(s, 1, Len(s) - 1)
Last(s) == s[Len(s)]

\* EntryHeader::set / set_with_sep: val is the Option of the old value.
set_with_sep(h, spec, v) ==
    LET tokens == tokenize(spec)
        destination == Last(tokens)
        path_to_dest == Front(tokens)
        value == walk_header(h, path_to_dest)
    IN  IF value.res # "Ok" THEN [res |-> value.res, val |-> <<>>, header |-> h]
        ELSE IF destination.t = "Key"
        THEN IF value.v.k = "Table"
             THEN [res |-> "Ok",
                   val |-> IF destination.s \in DOMAIN value.v.v
                           THEN <<value.v.v[destination.s]>> ELSE <<>>,
                   header |-> write_through(h, path_to_dest,
                                  TTable(table_insert(value.v.v, destination.s, v)))]
             ELSE [res |-> "HeaderPathTypeFailure", val |-> <<>>, header |-> h]
        ELSE IF value.v.k = "Array"
             THEN LET a == Append(value.v.v, v)
                  IN  IF Len(a) > destination.i
                      THEN [res |-> "Ok", val |-> <<a[destination.i + 1]>>,
                            header |-> write_through(h, path_to_dest,
                                           TArray(swap_remove(a, destination.i)))]
                      ELSE [res |-> "Ok", val |-> <<>>,
                            header |-> write_through(h, path_to_dest, TArray(a))]
             ELSE [res |-> "HeaderPathTypeFailure", val |-> <<>>, header |-> h]

\* A faulty insert: one that puts v in whether or not a value is there.
insert_as_set(h, spec, v) ==
    LET r == set_with_sep(h, spec, v)
    IN  [res |-> r.res, val |-> IF r.res = "Ok" THEN <<TRUE>> ELSE <<>>,
         header |-> r.header]

\* EntryHeader::insert / insert_with_sep: val is <<whether v was put in>>.
insert_with_sep(h, spec, v) ==
    LET tokens == tokenize(spec)
        destination == Last(tokens)
        path_to_dest == Front(tokens)
        value == walk_header(h, path_to_dest)
    IN  IF value.res # "Ok" THEN [res |-> value.res, val |-> <<>>, header |-> h]
        ELSE IF extract(value.v, destination).res = "panic"
        THEN [res |-> "panic", val |-> <<>>, header |-> h]
        ELSE IF extract(value.v, destination).res = "Ok"
        THEN [res |-> "Ok", val |-> <<FALSE>>, header |-> h]
        ELSE IF destination.t = "Key"
        THEN IF value.v.k = "Table"
             THEN [res |-> "Ok", val |-> <<TRUE>>,
                   header |-> write_through(h, path_to_dest,
                                  TTable(table_insert(value.v.v, destination.s, v)))]
             ELSE [res |-> "HeaderPathTypeFailure", val |-> <<>>, header |-> h]
        ELSE IF value.v.k = "Array"
             THEN LET a == Append(value.v.v, v)
                      pushed == write_through(h, path_to_dest, TArray(a))
                  IN  \* a.swap_remove(i) with a.len() < i is out of bounds
                      IF Len(a) < destination.i
                      THEN [res |-> "panic", val |-> <<>>, header |-> pushed]
                      ELSE [res |-> "Ok", val |-> <<TRUE>>, header |-> pushed]
             ELSE [res |-> "HeaderPathTypeFailure", val |-> <<>>, header |-> h]

\* EntryHeader::read / read_with_sep, on a clone of the header.
read_with_sep(h, spec) ==
    LET value == walk_header(h, tokenize(spec))
    IN  IF value.res = "Ok" THEN [res |-> "Ok", val |-> <<value.v>>, header |-> h]
        ELSE IF value.res = "HeaderKeyNotFound"
        THEN [res |-> "Ok", val |-> <<>>, header |-> h]
        ELSE [res |-> value.res, val |-> <<>>, header |-> h]

\* EntryHeader::delete: val is the Option of the removed value.
header_delete(h, spec) ==
    LET tokens == tokenize(spec)
        destination == Last(tokens)
        path_to_dest == Front(tokens)
        value == walk_header(h, path_to_dest)
    IN  IF value.res # "Ok" THEN [res |-> value.res, val |-> <<>>, header |-> h]
        ELSE IF destination.t = "Key"
        THEN IF value.v.k = "Table"
             THEN [res |-> "Ok",
                   val |-> IF destination.s \in DOMAIN value.v.v
                           THEN <<value.v.v[destination.s]>> ELSE <<>>,
                   header |-> write_through(h, path_to_dest,
                                  TTable(table_remove(value.v.v, destination.s)))]
             ELSE [res |-> "HeaderPathTypeFailure", val |-> <<>>, header |-> h]
        ELSE IF value.v.k = "Array"
             THEN IF Len(value.v.v) > destination.i
                  THEN [res |-> "Ok", val |-> <<value.v.v[destination.i + 1]>>,
                        header |-> write_through(h, path_to_dest,
                                       TArray(remove(value.v.v, destination.i)))]
                  ELSE [res |-> "Ok", val |-> <<>>, header |-> h]
             ELSE [res |-> "HeaderPathTypeFailure", val |-> <<>>, header |-> h]

(***************************************************************************)
(* Entries and their text.  A text is a sequence of lines; nl says that    *)
(* the last line ends with a newline.  A content is the sequence of its    *)
(* lines, joined by newlines.                                              *)
(***************************************************************************)
ContentLines == {"a", "---"}

SeqsUpTo(S, n) == UNION {[1..k -> S] : k \in 0..n}

\* A content whose first line is the delimiter of the header.
DashContent == <<"---", "a">>

\* The contents the callers and the hooks of the Store give an entry.
Contents == {<<>>, <<"a">>, DashContent}

\* The contents of the entries serialised on their own.
Texts == SeqsUpTo(ContentLines, MaxLines)

Entry(h, c) == [header |-> h, content |-> c]

\* Entry::new
EntryNew == Entry(build_default_header, <<>>)

\* toml::encode_str on the headers of this model: one line per document.
encode_str(h) ==
    IF h = build_default_header THEN <<"imag.links=[] imag.version=0.1.0">>
    ELSE IF h = NoVersionHeader THEN <<"imag.links=[]">>
    ELSE <<"?">>

\* toml::Parser::parse: the table of a document, or "none".
toml_parse(ls) ==
    IF ls = <<"imag.links=[] imag.version=0.1.0">> THEN <<build_default_header.v>>
    ELSE IF ls = <<"imag.links=[]">> THEN <<NoVersionHeader.v>>
    ELSE IF ls = <<>> THEN <<[x \in {} |-> x]>>
    ELSE <<>>

\* A faulty parse: one that leaves out verify_header_consistency.
EntryHeader_parse_unverified(ls) ==
    LET p == toml_parse(ls)
    IN  IF p = <<>> THEN <<>> ELSE <<TTable(p[1])>>

\* EntryHeader::parse: <<header>> or <<>> (a ParserError).
EntryHeader_parse(ls) ==
    LET p == toml_parse(ls)
    IN  IF p = <<>> THEN <<>>
        ELSE IF verify_header(p[1]) # "Ok" THEN <<>>
        ELSE <<TTable(p[1])>>

\* Entry::to_str: "---{header}---\n{content}".
to_str(e) ==
    [lines |-> <<"---">> \o encode_str(e.header) \o <<"---">> \o e.content,
     nl |-> (e.content = <<>>)]

\* Entry::from_str: [res |-> "Ok", entry |-> e] or [res |-> "MalformedEntry"].
\* The pattern ^---$ (header) ^---$\n (content) is greedy in the header: the
\* header ends at the last --- line that a newline follows.
from_str(text) ==
    LET L == text.lines
        dashes == {i \in 1..Len(L) : L[i] = "---"}
        closes(i) == {j \in dashes : j > i /\ (j < Len(L) \/ text.nl)}
        starts == {i \in dashes : closes(i) # {}}
    IN  IF starts = {} THEN [res |-> "MalformedEntry", entry |-> EntryNew]
        ELSE LET i == SetMin(starts)
                 j == SetMax(closes(i))
                 hdr == EntryHeader_parse(SubSeq(L, i + 1, j - 1))
             IN  IF hdr = <<>> THEN [res |-> "MalformedEntry", entry |-> EntryNew]
                 ELSE [res |-> "Ok",
                       entry |-> Entry(hdr[1], SubSeq(L, j + 1, Len(L)))]

(***************************************************************************)
(* Files of the store directory.                                           *)
(***************************************************************************)
NoFile == [exists |-> FALSE, lines |-> <<>>, nl |-> FALSE]
FileOf(text) == [exists |-> TRUE, lines |-> text.lines, nl |-> text.nl]
EmptyFile == [exists |-> TRUE, lines |-> <<>>, nl |-> FALSE]

\* What an earlier Store instance (or anything else) left in the directory.
InitialFiles ==
    {NoFile, FileOf(to_str(Entry(build_default_header, <<"a">>))), EmptyFile}

(***************************************************************************)
(* The state.                                                              *)
(*   entries[id]   the slot of id in the cache table: its status, or       *)
(*                 "Absent" when the table has no slot for id              *)
(*   disk[id]      the file of id                                          *)
(*   lockOwner     the thread that is stuck holding the write lock of the  *)
(*                 table, or "none" (every other critical section is one   *)
(*                 step of the model)                                      *)
(*   poisoned      a thread panicked while it held the table lock          *)
(*   pc[t]         where thread t is in the call it is executing           *)
(*   fle[t]        the FileLockEntry that call owns: <<>> or <<handle>>    *)
(*   held[t]       the FileLockEntry the caller t keeps: <<>> or <<handle>>  *)
(*   pending[t]    the error update is about to return while it drops its  *)
(*                 handle ("" otherwise)                                   *)
(*   ret           the call that returned last: the thread, the call, its  *)
(*                 identifier and its result; n is the parity of the       *)
(*                 number of calls that have returned (history variable)   *)
(*   lastWritten   per identifier, <<e>> when the file holds the entry e   *)
(*                 that write_entry wrote, else <<>> (history variable)    *)
(*   aspectPoisoned  the lifecycle points whose mutex of aspects is        *)
(*                 poisoned                                                *)
(*   registry      per lifecycle point and aspect, the hooks registered    *)
(*   regRet        the last call of register_hook and its result           *)
(*   rt            an entry, its text and what parsing the text gives      *)
(*                 (serialisation on its own)                              *)
(*   hk            a fold over a list of aspects, call by call (the hook   *)
(*                 pipeline on its own)                                    *)
(*   vf            a table and what verify says of it (the verification    *)
(*                 of headers on its own)                                  *)
(*   hd            an EntryHeader and the last call of read, insert, set   *)
(*                 or delete on it (the header on its own)                 *)
(*   mp            the arguments and the outcome of ModuleEntryPath::new   *)
(*   mv            a table of slots and the files of two identifiers, and  *)
(*                 the last call of move_by_id on them                     *)
(***************************************************************************)
VARIABLES entries, disk, lockOwner, poisoned, aspectPoisoned, pc, fle, held, pending, ret,
          lastWritten, registry, regRet, rt, hk, vf, hd, mp, mv

vars == <<entries, disk, lockOwner, poisoned, aspectPoisoned, pc, fle, held, pending, ret,
          lastWritten, registry, regRet, rt, hk, vf, hd, mp, mv>>

Handle(id, e) == [key |-> id, entry |-> e]

\* StoreEntry::is_borrowed
is_borrowed(st) == st = "Borrowed"

\* A faulty contains_key: one that overlooks the slots that are not borrowed.
contains_key_borrowed_only(es, id) == es[id] = "Borrowed"

\* HashMap::contains_key on the table.
contains_key(es, id) == es[id] # "Absent"

\* A faulty check: one that takes no slot for borrowed.
slot_never_borrowed(es, id) == FALSE

\* entries.get(&id).map(|e| e.is_borrowed()).unwrap_or(false)
slot_is_borrowed(es, id) == IF contains_key(es, id) THEN is_borrowed(es[id]) ELSE FALSE

\* A faulty removal of the file: one whose failure goes unnoticed.
remove_file_unchecked(file, io) == [res |-> "Ok", file |-> NoFile]

\* std::fs::remove_file(&id), as delete calls it: it fails on a missing file
\* and on an I/O error, and then the file is as it was.
remove_file(file, io) ==
    IF ~file.exists \/ io # "ok" THEN [res |-> "FileError", file |-> file]
    ELSE [res |-> "Ok", file |-> NoFile]

\* The outcomes of the I/O the Store does.
ReadIO == {"ok", "io_error"}
WriteIO == {"ok", "create_fails", "set_len_fails", "write_all_fails"}

\* LazyFile::get_file_mut: "FileNotFound" when there is no file to open.
get_file_mut(file, io) ==
    IF ~file.exists THEN "FileNotFound"
    ELSE IF io = "ok" THEN "Ok" ELSE "IoError"

\* LazyFile::create_file: the file exists afterwards.
create_file(file, io) ==
    IF io = "create_fails" THEN [res |-> "FileNotCreated", file |-> file]
    ELSE [res |-> "Ok", file |-> IF file.exists THEN file ELSE EmptyFile]

\* A faulty get_entry: one that hands out the entry of a Borrowed slot too.
get_entry_unchecked(st, file, io) ==
    IF get_file_mut(file, io) = "FileNotFound" THEN [res |-> "Ok", entry |-> EntryNew]
    ELSE IF get_file_mut(file, io) # "Ok"
         THEN [res |-> get_file_mut(file, io), entry |-> EntryNew]
         ELSE from_str(file)

\* A faulty get_entry: one for which a missing file is an error like another.
get_entry_not_found_fatal(st, file, io) ==
    IF ~is_borrowed(st)
    THEN IF get_file_mut(file, io) # "Ok"
         THEN [res |-> get_file_mut(file, io), entry |-> EntryNew]
         ELSE from_str(file)
    ELSE [res |-> "EntryAlreadyBorrowed", entry |-> EntryNew]

\* StoreEntry::get_entry: [res, entry].
get_entry(st, file, io) ==
    IF ~is_borrowed(st)
    THEN IF get_file_mut(file, io) = "FileNotFound"
         THEN [res |-> "Ok", entry |-> EntryNew]
         ELSE IF get_file_mut(file, io) # "Ok"
              THEN [res |-> get_file_mut(file, io), entry |-> EntryNew]
              ELSE from_str(file)
    ELSE [res |-> "EntryAlreadyBorrowed", entry |-> EntryNew]

\* StoreEntry::write_entry: [res, file].
write_entry(st, file, e, io) ==
    IF is_borrowed(st)
    THEN LET c == create_file(file, io)
         IN  IF c.res # "Ok" THEN [res |-> c.res, file |-> c.file]
             ELSE IF io = "set_len_fails" THEN [res |-> "FileError", file |-> c.file]
             ELSE IF io = "write_all_fails" THEN [res |-> "FileError", file |-> EmptyFile]
             ELSE [res |-> "Ok", file |-> FileOf(to_str(e))]
    ELSE [res |-> "Ok", file |-> file]

\* A faulty _update: one that writes without verifying the entry.
update_without_verify(st, file, psn, h, io) ==
    IF psn THEN [res |-> "LockPoisoned", status |-> st, file |-> file, wrote |-> FALSE]
    ELSE IF st = "Absent"
         THEN [res |-> "IdNotFound", status |-> st, file |-> file, wrote |-> FALSE]
    ELSE IF ~is_borrowed(st)
         THEN [res |-> "AssertionFailed", status |-> st, file |-> file, wrote |-> FALSE]
    ELSE LET w == write_entry(st, file, h.entry, io)
         IN  IF w.res # "Ok"
             THEN [res |-> w.res, status |-> st, file |-> w.file, wrote |-> FALSE]
             ELSE [res |-> "Ok", status |-> "Present", file |-> w.file, wrote |-> TRUE]

\* Store::_update on the slot of h.key, entered with the write lock of the
\* table: the result ("AssertionFailed" is the panic of the assert!), the
\* status of the slot and the file afterwards.
_update(st, file, psn, h, io) ==
    IF psn THEN [res |-> "LockPoisoned", status |-> st, file |-> file, wrote |-> FALSE]
    ELSE IF st = "Absent"
         THEN [res |-> "IdNotFound", status |-> st, file |-> file, wrote |-> FALSE]
    ELSE IF ~is_borrowed(st)
         THEN [res |-> "AssertionFailed", status |-> st, file |-> file, wrote |-> FALSE]
    ELSE IF verify(h.entry.header) # "Ok"
         THEN [res |-> verify(h.entry.header), status |-> st, file |-> file,
               wrote |-> FALSE]
    ELSE LET w == write_entry(st, file, h.entry, io)
         IN  IF w.res # "Ok"
             THEN [res |-> w.res, status |-> st, file |-> w.file, wrote |-> FALSE]
             ELSE [res |-> "Ok", status |-> "Present", file |-> w.file, wrote |-> TRUE]

(***************************************************************************)
(* The hooks.  Every lifecycle point has its list of aspects behind a      *)
(* mutex; outs[i] says whether aspect i succeeds when it is called.        *)
(***************************************************************************)
HookPoints ==
    {"pre_create", "post_create", "pre_retrieve", "post_retrieve",
     "pre_update", "post_update", "pre_delete", "post_delete"}

HookOutcomes == [1..NumAspects -> BOOLEAN]

AllOk == [i \in 1..NumAspects |-> TRUE]

\* A faulty step of the fold: one that calls the aspect whatever came before.
and_always(acc, i, outs) ==
    [res |-> IF acc.res = "Ok" /\ outs[i] THEN "Ok" ELSE "HookError",
     calls |-> Append(acc.calls, [a |-> i, ok |-> outs[i]])]

\* acc.and_then(|_| aspect.access(..)): aspect i is called only when every
\* aspect before it returned Ok; calls is the list of the calls made.
and_then(acc, i, outs) ==
    IF acc.res = "Ok"
    THEN [res |-> IF outs[i] THEN "Ok" ELSE "HookError",
          calls |-> Append(acc.calls, [a |-> i, ok |-> outs[i]])]
    ELSE acc

\* iter().fold(Ok(()), ..) over the aspects from the i-th on.
RECURSIVE fold(_, _, _)
fold(acc, i, outs) ==
    IF i > Len(outs) THEN acc ELSE fold(and_then(acc, i, outs), i + 1, outs)

\* A faulty execute_hooks: one that loses the error of the fold.
execute_hooks_losing_error(psn, outs) ==
    [res |-> "Ok", calls |-> fold([res |-> "Ok", calls |-> <<>>], 1, outs).calls]

\* Store::execute_hooks_for_id / execute_hooks_for_mut_file: [res, calls].
\* psn: the mutex of the aspects is poisoned.  Whatever fails, the error is
\* a PreHookExecuteError.
execute_hooks(psn, outs) ==
    IF psn THEN [res |-> "PreHookExecuteError", calls |-> <<>>]
    ELSE LET r == fold([res |-> "Ok", calls |-> <<>>], 1, outs)
         IN  [res |-> IF r.res = "Ok" THEN "Ok" ELSE "PreHookExecuteError",
              calls |-> r.calls]

\* What the hooks with mutable access leave in the entry they are given.
HookEffects(e) == {e, Entry(e.header, <<"a">>)}

RemoveAt(s, i) == SubSeq(s, 1, i - 1) \o SubSeq(s, i + 1, Len(s))

LockFree == lockOwner = "none"

Idle(t) == pc[t] = "idle"

\* The hooks of the lifecycle point p run with the outcomes outs.
Hooks(p, outs) == execute_hooks(p \in aspectPoisoned, outs)

\* The record of that run: the point and the calls made.
Ran(p, outs) == [p |-> p, calls |-> Hooks(p, outs).calls]

\* The entry the hooks of p leave in the handle of e (none runs when the
\* mutex is poisoned).
Touched(p, e) == IF p \in aspectPoisoned THEN {e} ELSE HookEffects(e)

NoRegistration ==
    [p |-> "none", name |-> 0, h |-> "none", res |-> "none", cause |-> "none", used |-> {}]

\* No table is being verified, no header is being worked on, no module path
\* is being built.
NoVerify == [h |-> build_default_header, phase |-> "none", res |-> "none", cause |-> "none"]

NoHeader == [header |-> build_default_header, op |-> "none", spec |-> <<>>, arg |-> <<>>,
             res |-> "none", val |-> <<>>, before |-> build_default_header]

NoPath == [name |-> "none", pa |-> <<>>, ver |-> <<>>, res |-> "none",
           dir |-> <<>>, file |-> <<>>]

\* The identifiers of a move, and no move made.
MoveIds == {"e1", "e2"}

NoMove == [entries |-> [id \in MoveIds |-> "Absent"], disk |-> [id \in MoveIds |-> NoFile],
           poisoned |-> FALSE, old |-> "e1", new |-> "e2", io |-> "ok", res |-> "none",
           was |-> [id \in MoveIds |-> "Absent"], had |-> [id \in MoveIds |-> NoFile]]

NoRoundTrip == [phase |-> "none", e |-> EntryNew, text |-> to_str(EntryNew),
                out |-> [res |-> "none", entry |-> EntryNew]]

\* Store::new, with the files an earlier run left.
InitStore ==
    /\ entries = [id \in Ids |-> "Absent"]
    /\ disk \in [Ids -> InitialFiles]
    /\ lockOwner = "none"
    /\ poisoned = FALSE
    /\ aspectPoisoned = {}
    /\ pc = [t \in Threads |-> "idle"]
    /\ fle = [t \in Threads |-> <<>>]
    /\ held = [t \in Threads |-> <<>>]
    /\ pending = [t \in Threads |-> ""]
    /\ ret = [t |-> "t1", op |-> "none", id |-> "e1", res |-> "Ok", n |-> 0,
              hooks |-> <<>>, e |-> <<>>]
    /\ lastWritten = [id \in Ids |-> <<>>]
    /\ registry = [p \in HookPoints |-> [i \in 1..NumAspects |-> <<>>]]
    /\ regRet = NoRegistration

\* No fold over a list of aspects is being followed.
NoFold == [outs |-> <<>>, i |-> 1, acc |-> [res |-> "Ok", calls |-> <<>>]]

Init == InitStore /\ rt = NoRoundTrip /\ hk = NoFold /\ vf = NoVerify /\ hd = NoHeader /\ mp = NoPath /\ mv = NoMove

\* What the calls of the Store leave alone.
Rest == <<aspectPoisoned, registry, regRet, rt, hk, vf, hd, mp, mv>>

\* The call op(id) of t returns res (or, for a stuck or panicked thread, res
\* is what the call had produced); hs are the runs of hooks of the call, and
\* e is <<the entry>> the call released or returned, if any.
Return(t, op, id, res, hs, e) ==
    ret' = [t |-> t, op |-> op, id |-> id, res |-> res, n |-> 1 - ret.n,
            hooks |-> hs, e |-> e]

(***************************************************************************)
(* The write-back: Store::_update on the slot of a handle, by a thread     *)
(* that has taken the write lock of the table.                             *)
(***************************************************************************)
WriteBack(h, io) == _update(entries[h.key], disk[h.key], poisoned, h, io)

\* The effect of the write-back u of the handle h on the Store.  The panic of
\* the assertion unwinds through the lock guard and poisons the lock.
Commit(u, h) ==
    /\ entries' = [entries EXCEPT ![h.key] = u.status]
    /\ disk' = [disk EXCEPT ![h.key] = u.file]
    /\ lastWritten' = IF u.wrote THEN [lastWritten EXCEPT ![h.key] = <<h.entry>>]
                      ELSE IF u.file # disk[h.key]
                           THEN [lastWritten EXCEPT ![h.key] = <<>>]
                           ELSE lastWritten
    /\ poisoned' = (poisoned \/ u.res = "AssertionFailed")

\* Drop for FileLockEntry, let _ = self.store._update(self), of the handle h
\* that the call op of t owns, after which the call returns res and the caller
\* keeps the handles keep.  A panic of the write-back unwinds the thread, which
\* drops the handles it keeps (their write-back finds the lock poisoned).
DropOwned(t, h, op, res, hs, keep) ==
    /\ LockFree
    /\ \E io \in WriteIO :
        LET u == WriteBack(h, io)
        IN  /\ Commit(u, h)
            /\ IF u.res = "AssertionFailed"
               THEN /\ pc' = [pc EXCEPT ![t] = "panicked"]
                    /\ Return(t, op, h.key, u.res, hs, <<>>)
                    /\ held' = [held EXCEPT ![t] = <<>>]
               ELSE /\ pc' = [pc EXCEPT ![t] = "idle"]
                    /\ Return(t, op, h.key, res, hs, <<>>)
                    /\ held' = [held EXCEPT ![t] = keep]
    /\ fle' = [fle EXCEPT ![t] = <<>>]
    /\ pending' = [pending EXCEPT ![t] = ""]
    /\ UNCHANGED lockOwner

(***************************************************************************)
(* Store::create.  The pre-create hooks run before the write lock of the   *)
(* table is taken; the lock is then kept until create returns.             *)
(***************************************************************************)
create(t) ==
    /\ Idle(t)
    /\ held[t] = <<>>
    /\ UNCHANGED <<pending, Rest>>
    /\ \E id \in Ids, pre \in HookOutcomes :
        IF Hooks("pre_create", pre).res # "Ok"
        THEN /\ Return(t, "create", id, Hooks("pre_create", pre).res,
                       <<Ran("pre_create", pre)>>, <<>>)
             /\ UNCHANGED <<entries, disk, lockOwner, poisoned, pc, fle, held, lastWritten>>
        ELSE /\ LockFree
             /\ IF poisoned
                THEN /\ Return(t, "create", id, "LockPoisoned",
                               <<Ran("pre_create", pre)>>, <<>>)
                     /\ UNCHANGED <<entries, disk, lockOwner, poisoned, pc, fle, held,
                                    lastWritten>>
                ELSE IF contains_key(entries, id)
                THEN /\ Return(t, "create", id, "EntryAlreadyExists",
                               <<Ran("pre_create", pre)>>, <<>>)
                     /\ UNCHANGED <<entries, disk, lockOwner, poisoned, pc, fle, held,
                                    lastWritten>>
                ELSE /\ entries' = [entries EXCEPT ![id] = "Borrowed"]
                     /\ \E post \in HookOutcomes, e \in Touched("post_create", EntryNew) :
                         LET hs == <<Ran("pre_create", pre), Ran("post_create", post)>>
                         IN
                         IF Hooks("post_create", post).res = "Ok"
                         THEN \* Ok(fle)
                              /\ held' = [held EXCEPT ![t] = Append(@, Handle(id, e))]
                              /\ Return(t, "create", id, "Ok", hs, <<>>)
                              /\ UNCHANGED <<lockOwner, poisoned, pc, fle>>
                         ELSE \* map(|_| fle) drops the handle while create still holds
                              \* the write lock, and the drop's _update takes that lock
                              \* again: the thread blocks on its own lock for ever, or
                              \* the lock reports it with a panic, which poisons it.
                              /\ Return(t, "create", id, "PostHookExecuteError", hs, <<>>)
                              /\ \/ /\ lockOwner' = t
                                    /\ pc' = [pc EXCEPT ![t] = "deadlocked"]
                                    /\ fle' = [fle EXCEPT ![t] = <<Handle(id, e)>>]
                                    /\ UNCHANGED <<poisoned, held>>
                                 \/ /\ poisoned' = TRUE
                                    /\ pc' = [pc EXCEPT ![t] = "panicked"]
                                    /\ held' = [held EXCEPT ![t] = <<>>]
                                    /\ UNCHANGED <<lockOwner, fle>>
                     /\ UNCHANGED <<disk, lastWritten>>

(***************************************************************************)
(* Store::retrieve.                                                        *)
(***************************************************************************)
\* The pre-retrieve hooks and the step under the write lock: the slot is
\* looked up or inserted Present, the entry is loaded, and the status is set
\* to Borrowed whatever get_entry returned.
retrieve(t) ==
    /\ Idle(t)
    /\ held[t] = <<>>
    /\ \E id \in Ids, pre \in HookOutcomes :
        IF Hooks("pre_retrieve", pre).res # "Ok"
        THEN /\ Return(t, "retrieve", id, Hooks("pre_retrieve", pre).res,
                       <<Ran("pre_retrieve", pre)>>, <<>>)
             /\ UNCHANGED <<entries, pc, fle>>
        ELSE /\ LockFree
             /\ IF poisoned
                THEN /\ Return(t, "retrieve", id, "LockPoisoned",
                               <<Ran("pre_retrieve", pre)>>, <<>>)
                     /\ UNCHANGED <<entries, pc, fle>>
                ELSE \E io \in ReadIO :
                     LET st == IF contains_key(entries, id) THEN entries[id] ELSE "Present"
                         g == get_entry(st, disk[id], io)
                     IN  /\ entries' = [entries EXCEPT ![id] = "Borrowed"]
                         /\ IF g.res = "Ok"
                            THEN /\ fle' = [fle EXCEPT ![t] = <<Handle(id, g.entry)>>]
                                 /\ pc' = [pc EXCEPT ![t] = "retrieve_post"]
                                 /\ ret' = ret
                            ELSE /\ Return(t, "retrieve", id, g.res,
                                           <<Ran("pre_retrieve", pre)>>, <<>>)
                                 /\ UNCHANGED <<pc, fle>>
    /\ UNCHANGED <<disk, lockOwner, poisoned, held, pending, lastWritten, Rest>>

\* The post-retrieve hooks, outside the lock.  When one fails the handle is
\* dropped before retrieve returns the error.
retrieve_post(t) ==
    /\ pc[t] = "retrieve_post"
    /\ UNCHANGED Rest
    /\ \E post \in HookOutcomes, e \in Touched("post_retrieve", fle[t][1].entry) :
        LET h == Handle(fle[t][1].key, e)
            hs == <<Ran("pre_retrieve", AllOk), Ran("post_retrieve", post)>>
        IN  IF Hooks("post_retrieve", post).res = "Ok"
            THEN /\ held' = [held EXCEPT ![t] = Append(@, h)]
                 /\ fle' = [fle EXCEPT ![t] = <<>>]
                 /\ pc' = [pc EXCEPT ![t] = "idle"]
                 /\ Return(t, "retrieve", h.key, "Ok", hs, <<>>)
                 /\ UNCHANGED <<entries, disk, lockOwner, poisoned, pending, lastWritten>>
            ELSE DropOwned(t, h, "retrieve", "HookExecutionError", hs, held[t])

(***************************************************************************)
(* Store::update, which takes the handle by value: the handle is dropped   *)
(* when update returns, whatever it returns.                               *)
(***************************************************************************)
\* The pre-update hooks and self._update(&entry).
update(t) ==
    /\ Idle(t)
    /\ UNCHANGED Rest
    /\ \E i \in 1..Len(held[t]), pre \in HookOutcomes :
       \E e \in Touched("pre_update", held[t][i].entry) :
        LET h == Handle(held[t][i].key, e)
        IN  IF Hooks("pre_update", pre).res # "Ok"
            THEN DropOwned(t, h, "update", Hooks("pre_update", pre).res,
                           <<Ran("pre_update", pre)>>, RemoveAt(held[t], i))
            ELSE /\ LockFree
                 /\ \E io \in WriteIO :
                     LET u == WriteBack(h, io)
                     IN  /\ Commit(u, h)
                         /\ IF u.res = "Ok"
                            THEN /\ pc' = [pc EXCEPT ![t] = "update_post"]
                                 /\ fle' = [fle EXCEPT ![t] = <<h>>]
                                 /\ held' = [held EXCEPT ![t] = RemoveAt(@, i)]
                                 /\ UNCHANGED <<ret, pending>>
                            ELSE IF u.res = "AssertionFailed"
                            THEN /\ pc' = [pc EXCEPT ![t] = "panicked"]
                                 /\ fle' = fle
                                 /\ held' = [held EXCEPT ![t] = <<>>]
                                 /\ Return(t, "update", h.key, u.res,
                                           <<Ran("pre_update", pre)>>, <<>>)
                                 /\ UNCHANGED pending
                            ELSE /\ pc' = [pc EXCEPT ![t] = "update_failed"]
                                 /\ fle' = [fle EXCEPT ![t] = <<h>>]
                                 /\ held' = [held EXCEPT ![t] = RemoveAt(@, i)]
                                 /\ pending' = [pending EXCEPT ![t] = u.res]
                                 /\ UNCHANGED ret
                 /\ UNCHANGED lockOwner

\* The post-update hooks, outside the lock, and the drop of the handle as
\* update returns their result.
update_post(t) ==
    /\ pc[t] = "update_post"
    /\ UNCHANGED Rest
    /\ \E post \in HookOutcomes, e \in Touched("post_update", fle[t][1].entry) :
        DropOwned(t, Handle(fle[t][1].key, e), "update", Hooks("post_update", post).res,
                  <<Ran("pre_update", AllOk), Ran("post_update", post)>>, held[t])

\* The drop of the handle as update returns the error of _update.
update_failed(t) ==
    /\ pc[t] = "update_failed"
    /\ UNCHANGED Rest
    /\ DropOwned(t, fle[t][1], "update", pending[t], <<Ran("pre_update", AllOk)>>, held[t])

(***************************************************************************)
(* What a caller does with a handle it keeps.                              *)
(***************************************************************************)
\* The caller releases the handle: Drop for FileLockEntry.
drop(t) ==
    /\ Idle(t) /\ LockFree
    /\ \E i \in 1..Len(held[t]), io \in WriteIO :
        LET h == held[t][i]
            u == WriteBack(h, io)
        IN  /\ Commit(u, h)
            /\ Return(t, "drop", h.key, u.res, <<>>, <<>>)
            /\ IF u.res = "AssertionFailed"
               THEN /\ pc' = [pc EXCEPT ![t] = "panicked"]
                    /\ held' = [held EXCEPT ![t] = <<>>]
               ELSE /\ pc' = pc
                    /\ held' = [held EXCEPT ![t] = RemoveAt(@, i)]
    /\ UNCHANGED <<lockOwner, fle, pending, Rest>>

\* The caller changes header and content through the handle
\* (get_header_mut, get_content_mut).
modify(t) ==
    /\ Idle(t)
    /\ \E i \in 1..Len(held[t]), h \in Headers, c \in Contents :
        /\ Entry(h, c) # held[t][i].entry
        /\ held' = [held EXCEPT ![t][i] = Handle(@.key, Entry(h, c))]
    /\ UNCHANGED <<entries, disk, lockOwner, poisoned, pc, fle, pending, ret, lastWritten,
                   Rest>>

(***************************************************************************)
(* Store::delete and Store::retrieve_copy.                                 *)
(***************************************************************************)
\* The pre-delete hooks, and under the write lock, which delete keeps until it
\* returns: the check of the status, the removal of the slot and of the file,
\* and the post-delete hooks.
delete(t) ==
    /\ Idle(t)
    /\ \E id \in Ids, pre \in HookOutcomes :
        LET hs == <<Ran("pre_delete", pre)>>
        IN
        IF Hooks("pre_delete", pre).res # "Ok"
        THEN /\ Return(t, "delete", id, Hooks("pre_delete", pre).res, hs, <<>>)
             /\ UNCHANGED <<entries, disk, lastWritten>>
        ELSE /\ LockFree
             /\ IF poisoned
                THEN /\ Return(t, "delete", id, "LockPoisoned", hs, <<>>)
                     /\ UNCHANGED <<entries, disk, lastWritten>>
                ELSE IF slot_is_borrowed(entries, id)
                THEN /\ Return(t, "delete", id, "IdLocked", hs, <<>>)
                     /\ UNCHANGED <<entries, disk, lastWritten>>
                ELSE \E io \in ReadIO, post \in HookOutcomes :
                     /\ entries' = [entries EXCEPT ![id] = "Absent"]
                     /\ disk' = [disk EXCEPT ![id] = remove_file(disk[id], io).file]
                     /\ IF remove_file(disk[id], io).res # "Ok"
                        THEN /\ Return(t, "delete", id, "FileError", hs, <<>>)
                             /\ UNCHANGED lastWritten
                        ELSE /\ lastWritten' = [lastWritten EXCEPT ![id] = <<>>]
                             /\ Return(t, "delete", id, Hooks("post_delete", post).res,
                                       <<Ran("pre_delete", pre), Ran("post_delete", post)>>,
                                       <<>>)
    /\ UNCHANGED <<lockOwner, poisoned, pc, fle, held, pending, Rest>>

\* Store::retrieve_copy: no hooks; the entry is read through a StoreEntry of
\* its own, the table is only looked at.
retrieve_copy(t) ==
    /\ Idle(t) /\ LockFree
    /\ \E id \in Ids, io \in ReadIO :
        LET g == get_entry("Present", disk[id], io)
        IN  IF poisoned THEN Return(t, "retrieve_copy", id, "LockPoisoned", <<>>, <<>>)
            ELSE IF slot_is_borrowed(entries, id)
            THEN Return(t, "retrieve_copy", id, "IdLocked", <<>>, <<>>)
            ELSE Return(t, "retrieve_copy", id, g.res, <<>>,
                        IF g.res = "Ok" THEN <<g.entry>> ELSE <<>>)
    /\ UNCHANGED <<entries, disk, lockOwner, poisoned, pc, fle, held, pending, lastWritten,
                   Rest>>

(***************************************************************************)
(* A hook that panics.  The hooks are the caller's code; one that panics   *)
(* while execute_hooks_for_id runs it unwinds through the guard of the     *)
(* aspects' mutex, which poisons it, and ends the thread.  The model lets  *)
(* the hooks of the three pre-points with StoreId access panic, in calls   *)
(* of a caller that keeps no handle.                                       *)
(***************************************************************************)
PanicPoints == {"pre_create", "pre_retrieve", "pre_delete"}

pre_hook_panics(t) ==
    /\ Idle(t)
    /\ held[t] = <<>>
    /\ \E p \in PanicPoints \ aspectPoisoned :
        aspectPoisoned' = aspectPoisoned \cup {p}
    /\ pc' = [pc EXCEPT ![t] = "panicked"]
    /\ UNCHANGED <<entries, disk, lockOwner, poisoned, fle, held, pending, ret, lastWritten,
                   registry, regRet, rt, hk, vf, hd, mp, mv>>

Next ==
    \E t \in Threads :
        \/ create(t)
        \/ retrieve(t) \/ retrieve_post(t)
        \/ update(t) \/ update_post(t) \/ update_failed(t)
        \/ drop(t) \/ modify(t)
        \/ delete(t) \/ retrieve_copy(t)
        \/ pre_hook_panics(t)

Spec == Init /\ [][Next]_vars

(***************************************************************************)
(* Store::register_hook.  It takes &mut self: the Store is not shared and  *)
(* no handle of it exists while hooks are registered.  The aspects of a    *)
(* lifecycle point are named 1..NumAspects here; a hook is a boxed value   *)
(* that the call consumes.                                                 *)
(***************************************************************************)
HookNames == {"h1", "h2"}

AspectNames == 1..(NumAspects + 1)

register_hook(p, name, h) ==
    /\ \A t \in Threads : Idle(t) /\ held[t] = <<>>
    /\ h \notin regRet.used
    /\ IF p \in aspectPoisoned
       THEN /\ regRet' = [p |-> p, name |-> name, h |-> h, res |-> "HookRegisterError",
                          cause |-> "LockError", used |-> regRet.used \cup {h}]
            /\ registry' = registry
       ELSE IF \E i \in 1..NumAspects : i = name
       THEN /\ registry' = [registry EXCEPT ![p][name] = Append(@, h)]
            /\ regRet' = [p |-> p, name |-> name, h |-> h, res |-> "Ok",
                          cause |-> "none", used |-> regRet.used \cup {h}]
       ELSE /\ registry' = registry
            /\ regRet' = [p |-> p, name |-> name, h |-> h, res |-> "HookRegisterError",
                          cause |-> "AspectNameNotFoundError",
                          used |-> regRet.used \cup {h}]
    /\ UNCHANGED <<entries, disk, lockOwner, poisoned, aspectPoisoned, pc, fle, held,
                   pending, ret, lastWritten, rt, hk, vf, hd, mp, mv>>

NextRegister ==
    \E p \in HookPoints, name \in AspectNames, h \in HookNames : register_hook(p, name, h)

SpecRegister == Init /\ [][NextRegister]_vars

(***************************************************************************)
(* The fold of execute_hooks_for_id / execute_hooks_for_mut_file over a    *)
(* list of aspects, one aspect per step.                                   *)
(***************************************************************************)
InitHooks ==
    /\ InitStore
    /\ rt = NoRoundTrip
    /\ vf = NoVerify /\ hd = NoHeader /\ mp = NoPath /\ mv = NoMove
    /\ hk \in {[outs |-> o, i |-> 1, acc |-> [res |-> "Ok", calls |-> <<>>]] :
                  o \in SeqsUpTo(BOOLEAN, MaxAspects)}

next_aspect ==
    /\ hk.i <= Len(hk.outs)
    /\ hk' = [hk EXCEPT !.acc = and_then(hk.acc, hk.i, hk.outs), !.i = hk.i + 1]
    /\ UNCHANGED <<entries, disk, lockOwner, poisoned, aspectPoisoned, pc, fle, held,
                   pending, ret, lastWritten, registry, regRet, rt, vf, hd, mp, mv>>

SpecHooks == InitHooks /\ [][next_aspect]_vars

(***************************************************************************)
(* Entry::to_str and Entry::from_str on their own.                         *)
(***************************************************************************)
InitRoundTrip ==
    /\ InitStore
    /\ hk = NoFold
    /\ vf = NoVerify /\ hd = NoHeader /\ mp = NoPath /\ mv = NoMove
    /\ rt \in {[phase |-> "entry", e |-> Entry(h, c), text |-> to_str(EntryNew),
                out |-> [res |-> "none", entry |-> EntryNew]] :
                  h \in Headers, c \in Texts}

entry_to_str ==
    /\ rt.phase = "entry"
    /\ rt' = [rt EXCEPT !.phase = "text", !.text = to_str(rt.e)]
    /\ UNCHANGED <<entries, disk, lockOwner, poisoned, aspectPoisoned, pc, fle, held,
                   pending, ret, lastWritten, registry, regRet, hk, vf, hd, mp, mv>>

entry_from_str ==
    /\ rt.phase = "text"
    /\ rt' = [rt EXCEPT !.phase = "parsed", !.out = from_str(rt.text)]
    /\ UNCHANGED <<entries, disk, lockOwner, poisoned, aspectPoisoned, pc, fle, held,
                   pending, ret, lastWritten, registry, regRet, hk, vf, hd, mp, mv>>

NextRoundTrip == entry_to_str \/ entry_from_str

SpecRoundTrip == InitRoundTrip /\ [][NextRoundTrip]_vars

(***************************************************************************)
(* Entry::from_str on the text of a file as anything may have left it:     *)
(* lines that are the delimiter, a header document that verifies, one that *)
(* lacks the version, and a line that is no header document, in any order. *)
(***************************************************************************)
ParseLines == ContentLines \cup {"imag.links=[] imag.version=0.1.0", "imag.links=[]"}

\* A text without lines has no last line that a newline could end.
RawTexts ==
    {[lines |-> ls, nl |-> b] : ls \in SeqsUpTo(ParseLines, MaxLines), b \in BOOLEAN}
        \ {[lines |-> <<>>, nl |-> TRUE]}

InitParse ==
    /\ InitStore
    /\ disk = [id \in Ids |-> NoFile]
    /\ hk = NoFold
    /\ vf = NoVerify /\ hd = NoHeader /\ mp = NoPath /\ mv = NoMove
    /\ rt \in {[phase |-> "raw", e |-> EntryNew, text |-> x,
                out |-> [res |-> "none", entry |-> EntryNew]] : x \in RawTexts}

Entry_from_str ==
    /\ rt.phase = "raw"
    /\ rt' = [rt EXCEPT !.phase = "read", !.out = from_str(rt.text)]
    /\ UNCHANGED <<entries, disk, lockOwner, poisoned, aspectPoisoned, pc, fle, held,
                   pending, ret, lastWritten, registry, regRet, hk, vf, hd, mp, mv>>

SpecParse == InitParse /\ [][Entry_from_str]_vars

(***************************************************************************)
(* EntryHeader::verify on its own.  From<Table> for EntryHeader wraps any  *)
(* table: the tables here have imag absent, not a table, or a table with   *)
(* or without version and links, and the keys a and b beside it.           *)
(***************************************************************************)
EmptyTable == [key \in {} |-> key]

\* What the key version holds: the crate version, strings that are not a
\* semantic version, values that are not a string.
VersionValues ==
    {TString(version), TString(<<"1", ".", "0">>), TString(<<"x">>), TInteger(1)}

MainSections ==
    UNION {{m \in [K -> VersionValues \cup {TArray(<<>>)}] :
               \A key \in K : IF key = "links" THEN m[key] = TArray(<<>>)
                               ELSE m[key] \in VersionValues} :
           K \in SUBSET {"version", "links"}}

TopLevelValues(key) ==
    IF key = "imag" THEN {TInteger(1)} \cup {TTable(m) : m \in MainSections}
    ELSE IF key = "a" THEN {TTable(EmptyTable), TInteger(1), TArray(<<>>)}
    ELSE {TTable(EmptyTable)}

Tables ==
    UNION {{t \in [K -> UNION {TopLevelValues(key) : key \in K}] :
               \A key \in K : t[key] \in TopLevelValues(key)} :
           K \in SUBSET {"imag", "a", "b"}}

InitVerify ==
    /\ InitStore
    /\ rt = NoRoundTrip /\ hk = NoFold /\ hd = NoHeader /\ mp = NoPath /\ mv = NoMove
    /\ vf \in {[h |-> TTable(t), phase |-> "made", res |-> "none", cause |-> "none"] :
                  t \in Tables}

EntryHeader_verify ==
    /\ vf.phase = "made"
    /\ vf' = [vf EXCEPT !.phase = "verified", !.res = verify(vf.h),
                        !.cause = verify_cause(vf.h)]
    /\ UNCHANGED <<entries, disk, lockOwner, poisoned, aspectPoisoned, pc, fle, held,
                   pending, ret, lastWritten, registry, regRet, rt, hk, hd, mp, mv>>

SpecVerify == InitVerify /\ [][EntryHeader_verify]_vars

(***************************************************************************)
(* The path operations on one EntryHeader, call after call.  The header is *)
(* the one of EntryHeader::new or one that was parsed, with the section a  *)
(* holding the array a.array of integers beside imag.  A call that panics  *)
(* ends the thread that owns the header.  The array is let grow by one     *)
(* element beyond MaxLen.                                                  *)
(***************************************************************************)
WithArray(n) ==
    TTable([imag |-> build_default_header.v["imag"],
            a |-> TTable([array |-> TArray([j \in 1..n |-> TInteger(j - 1)])])])

InitialHeaders == {build_default_header} \cup {WithArray(n) : n \in 0..MaxLen}

\* The values a caller puts into the header.
NewValues == {TInteger(9)}

HeaderPaths ==
    {<<"imag">>, <<"imag", "version">>, <<"a">>, <<"a", "array">>, <<"b">>,
     <<"a", "1">>, <<"a", "array", "k">>, <<"imag", "version", "k">>, <<"b", "k">>}
        \cup {<<"a", "array", Numerals[i + 1]>> : i \in 0..(MaxLen + 2)}

\* The length of a.array, 0 without it.
ArrayLen(h) ==
    LET x == walk_header(h, <<Key("a"), Key("array")>>)
    IN  IF x.res = "Ok" /\ x.v.k = "Array" THEN Len(x.v.v) ELSE 0

InitHeader ==
    /\ InitStore
    /\ disk = [id \in Ids |-> NoFile]
    /\ rt = NoRoundTrip /\ hk = NoFold /\ vf = NoVerify /\ mp = NoPath /\ mv = NoMove
    /\ hd \in {[NoHeader EXCEPT !.header = h, !.before = h] : h \in InitialHeaders}

\* The call op(spec, arg) with the Result r on the header.
Called(op, spec, arg, r) ==
    /\ hd.res # "panic"
    /\ ArrayLen(r.header) <= MaxLen + 1
    /\ hd' = [header |-> r.header, op |-> op, spec |-> spec, arg |-> arg,
              res |-> r.res, val |-> r.val, before |-> hd.header]
    /\ UNCHANGED <<entries, disk, lockOwner, poisoned, aspectPoisoned, pc, fle, held,
                   pending, ret, lastWritten, registry, regRet, rt, hk, vf, mp, mv>>

EntryHeader_read ==
    \E spec \in HeaderPaths : Called("read", spec, <<>>, read_with_sep(hd.header, spec))

EntryHeader_insert ==
    \E spec \in HeaderPaths, v \in NewValues :
        Called("insert", spec, <<v>>, insert_with_sep(hd.header, spec, v))

EntryHeader_set ==
    \E spec \in HeaderPaths, v \in NewValues :
        Called("set", spec, <<v>>, set_with_sep(hd.header, spec, v))

EntryHeader_delete ==
    \E spec \in HeaderPaths : Called("delete", spec, <<>>, header_delete(hd.header, spec))

NextHeader ==
    EntryHeader_read \/ EntryHeader_insert \/ EntryHeader_set \/ EntryHeader_delete

SpecHeader == InitHeader /\ [][NextHeader]_vars

(***************************************************************************)
(* ModuleEntryPath::new of the module that module_entry_path_mod!(name,    *)
(* version) generates (storeid.rs).  A path is the sequence of its         *)
(* components; the file name of the result is kept apart, as the sequence  *)
(* of the name, "~" and the characters of the version.                     *)
(***************************************************************************)
RECURSIVE to_number(_)
\* The number a string of digits stands for.
to_number(s) ==
    IF s = <<>> THEN 0 ELSE 10 * to_number(Front(s)) + usize_from_str(Last(s))[1]

RECURSIVE to_digits(_)
\* The digits a number is printed with.
to_digits(n) ==
    IF n < 10 THEN <<Numerals[n + 1]>>
    ELSE to_digits(n \div 10) \o <<Numerals[(n % 10) + 1]>>

\* semver::Version::parse: <<the version>> or <<>>.
Version_parse(s) ==
    IF VersionParses(s)
    THEN LET dots == {i \in 1..Len(s) : s[i] = "."}
         IN  <<[major |-> to_number(SubSeq(s, 1, SetMin(dots) - 1)),
                minor |-> to_number(SubSeq(s, SetMin(dots) + 1, SetMax(dots) - 1)),
                patch |-> to_number(SubSeq(s, SetMax(dots) + 1, Len(s)))]>>
    ELSE <<>>

\* Display for semver::Version.
Version_fmt(v) ==
    to_digits(v.major) \o <<".">> \o to_digits(v.minor) \o <<".">> \o to_digits(v.patch)

\* ModuleEntryPath::new(pa) in the module of name and ver: unwrap panics on
\* a version that does not parse.
ModuleEntryPath_new(name, pa, ver) ==
    LET path == <<name>> \o pa
        parsed == Version_parse(ver)
    IN  IF parsed = <<>> THEN [res |-> "panic", dir |-> <<>>, file |-> <<>>]
        ELSE [res |-> "Ok", dir |-> Front(path),
              file |-> <<Last(pa), "~">> \o Version_fmt(parsed[1])]

ModuleNames == {"test"}

\* The logical names: relative paths of one or two components.
LogicalNames == {<<"test">>, <<"a", "b">>}

VersionChars == {"1", ".", "a"}

InitModulePath ==
    /\ InitStore
    /\ disk = [id \in Ids |-> NoFile]
    /\ rt = NoRoundTrip /\ hk = NoFold /\ vf = NoVerify /\ hd = NoHeader /\ mv = NoMove
    /\ mp \in {[NoPath EXCEPT !.name = name, !.pa = pa, !.ver = ver] :
                  name \in ModuleNames, pa \in LogicalNames,
                  ver \in SeqsUpTo(VersionChars, MaxVersionLen)}

module_path_new ==
    /\ mp.name # "none" /\ mp.res = "none"
    /\ LET r == ModuleEntryPath_new(mp.name, mp.pa, mp.ver)
       IN  mp' = [mp EXCEPT !.res = r.res, !.dir = r.dir, !.file = r.file]
    /\ UNCHANGED <<entries, disk, lockOwner, poisoned, aspectPoisoned, pc, fle, held,
                   pending, ret, lastWritten, registry, regRet, rt, hk, vf, hd, mv>>

SpecModulePath == InitModulePath /\ [][module_path_new]_vars

(***************************************************************************)
(* Store::move_by_id on its own, on a table and the files of two           *)
(* identifiers in the states the calls of the Store leave them in.         *)
(***************************************************************************)
\* std::fs::rename(old, new): the files afterwards; it fails, and changes
\* nothing, on a missing file and on an I/O error.
rename(files, old, new, io) ==
    IF ~files[old].exists \/ io # "ok" THEN files
    ELSE [files EXCEPT ![new] = files[old], ![old] = NoFile]

\* Store::move_by_id: with a slot for old it reaches unimplemented!() under
\* the write lock, and the panic poisons the lock; without one it renames the
\* file, and the semicolon after the rename drops the Result.
move_by_id(es, files, psn, old, new, io) ==
    IF psn THEN [res |-> "LockPoisoned", entries |-> es, disk |-> files, poisoned |-> psn]
    ELSE IF contains_key(es, old)
    THEN [res |-> "panic", entries |-> es, disk |-> files, poisoned |-> TRUE]
    ELSE [res |-> "unit", entries |-> es, disk |-> rename(files, old, new, io),
          poisoned |-> psn]

InitMove ==
    /\ InitStore
    /\ disk = [id \in Ids |-> NoFile]
    /\ rt = NoRoundTrip /\ hk = NoFold /\ vf = NoVerify /\ hd = NoHeader /\ mp = NoPath
    /\ mv \in {[NoMove EXCEPT !.entries = es, !.disk = files, !.poisoned = psn] :
                  es \in [MoveIds -> {"Absent", "Present", "Borrowed"}],
                  files \in [MoveIds -> InitialFiles], psn \in BOOLEAN}

Store_move_by_id ==
    /\ mv.res # "panic"
    /\ \E old \in MoveIds : \E new \in MoveIds \ {old}, io \in ReadIO :
        LET r == move_by_id(mv.entries, mv.disk, mv.poisoned, old, new, io)
        IN  mv' = [entries |-> r.entries, disk |-> r.disk, poisoned |-> r.poisoned,
                   old |-> old, new |-> new, io |-> io, res |-> r.res,
                   was |-> mv.entries, had |-> mv.disk]
    /\ UNCHANGED <<entries, disk, lockOwner, poisoned, aspectPoisoned, pc, fle, held,
                   pending, ret, lastWritten, registry, regRet, rt, hk, vf, hd, mp>>

SpecMove == InitMove /\ [][Store_move_by_id]_vars

(***************************************************************************)
(* Properties.                                                             *)
(***************************************************************************)
\* The threads that have a live handle for id: one the caller keeps, or one
\* that a call in progress owns.
Holders(id) ==
    {t \in Threads : held[t] # <<>> /\ held[t][1].key = id}
    \cup {t \in Threads : /\ pc[t] \in {"retrieve_post", "update_post", "update_failed"}
                          /\ fle[t][1].key = id}

KeepsHandle(t, id) == held[t] # <<>> /\ held[t][1].key = id

\* The step is the return of the call op(id) of t.
Returns(t, op, id) ==
    ret' # ret /\ ret'.t = t /\ ret'.op = op /\ ret'.id = id

\* C1: at most one live FileLockEntry exists for an identifier at any moment,
\* at every step of create, retrieve, update and release, the hook steps of
\* update included (the handle update was given is live until update returns).
C1_OneHandlePerId ==
    \A id \in Ids :
        Cardinality({t \in Threads : KeepsHandle(t, id)})
        + Cardinality({t \in Threads : /\ pc[t] \in {"retrieve_post", "update_post",
                                                      "update_failed"}
                                       /\ fle[t][1].key = id}) <= 1

\* C2: a slot is Borrowed if and only if a live handle for its identifier
\* exists; a slot for which no handle is live is not Borrowed.
C2_BorrowedIffHandle ==
    \A id \in Ids : (entries[id] = "Borrowed") <=> (Holders(id) # {})

\* C3: no call panics: whenever the write-back runs, its assertion that the
\* slot is Borrowed holds, also when update drops the handle it was given.
C3_AssertionHolds == ret.res # "AssertionFailed"

\* C4: after the handle for E is released, whatever was changed through it, a
\* retrieve(E) succeeds: when the release was the last call to return, no
\* handle for E is live and the release met no I/O failure, the retrieve that
\* takes the table next loads the entry.
C4_RetrieveAfterRelease ==
    ( /\ ret.op = "drop"
      /\ ret.res \in {"Ok", "MalformedEntry"}
      /\ Holders(ret.id) = {}
      /\ LockFree /\ ~poisoned )
    => get_entry(IF contains_key(entries, ret.id) THEN entries[ret.id] ELSE "Present",
                 disk[ret.id], "ok").res = "Ok"

\* C5: a retrieve(E) that finds the slot of E Borrowed fails in that same step
\* with EntryAlreadyBorrowed: it does not wait for the handle, it returns no
\* handle, and the slot stays Borrowed.  (A retrieve that a failing pre-retrieve
\* hook or a poisoned lock stops before it looks at the slot returns that
\* error, and leaves everything as it is as well.)
C5_RetrieveBorrowedFails ==
    [][\A t \in Threads, id \in Ids :
         ( /\ Idle(t)
           /\ entries[id] = "Borrowed"
           /\ \/ Returns(t, "retrieve", id)
              \/ pc'[t] = "retrieve_post" /\ fle'[t][1].key = id )
         => /\ pc'[t] = "idle"
            /\ \/ ret'.res = "EntryAlreadyBorrowed"
               \/ ret'.res = "PreHookExecuteError"
               \/ poisoned /\ ret'.res = "LockPoisoned"
            /\ fle' = fle /\ held' = held
            /\ entries' = entries /\ disk' = disk]_vars

\* A second caller got EntryAlreadyBorrowed while the first keeps its handle.
C5_Witness ==
    /\ ret.op = "retrieve" /\ ret.res = "EntryAlreadyBorrowed"
    /\ entries[ret.id] = "Borrowed"
    /\ \E t \in Threads \ {ret.t} : KeepsHandle(t, ret.id)
    /\ held[ret.t] = <<>> /\ pc[ret.t] = "idle"

\* C6: delete(E) while E is Borrowed fails with IdLocked and leaves the file,
\* the slot and its Borrowed status unchanged.  (A delete that a failing
\* pre-delete hook or a poisoned lock stops before it looks at the slot returns
\* that error, and changes nothing either.)
C6_DeleteBorrowedLocked ==
    [][\A t \in Threads, id \in Ids :
         (entries[id] = "Borrowed" /\ Returns(t, "delete", id))
         => /\ \/ ret'.res = "IdLocked"
               \/ ret'.res = "PreHookExecuteError"
               \/ poisoned /\ ret'.res = "LockPoisoned"
            /\ entries' = entries /\ disk' = disk /\ lastWritten' = lastWritten
            /\ held' = held /\ fle' = fle]_vars

\* delete returned IdLocked for a borrowed entry whose file is still there.
C6_Witness ==
    /\ ret.op = "delete" /\ ret.res = "IdLocked"
    /\ entries[ret.id] = "Borrowed"
    /\ disk[ret.id].exists /\ disk[ret.id] # EmptyFile
    /\ \E t \in Threads : KeepsHandle(t, ret.id)

\* C7: when update(handle) fails at the verify or the write step, the error is
\* returned, the slot is left Borrowed and the caller can retry the update: it
\* still has the handle of that entry.
C7_FailedUpdateRetry ==
    ( /\ ret.op = "update"
      /\ ret.res \in {"MalformedEntry", "FileError", "FileNotCreated"}
      /\ pc[ret.t] = "idle" )
    => /\ entries[ret.id] = "Borrowed"
       /\ KeepsHandle(ret.t, ret.id)

\* The handle whose write-back the step of t is, when it is one.
WrittenBack(t) == IF pc[t] = "idle" THEN held[t][1] ELSE fle[t][1]

\* The step of t runs the write-back of WrittenBack(t): a release by the
\* caller, an update, or the drop of the handle a call owns.
WriteBackStep(t) ==
    \/ /\ Idle(t) /\ held[t] # <<>>
       /\ \/ pc'[t] \in {"update_post", "update_failed"}
          \/ ret' # ret /\ ret'.t = t /\ ret'.op \in {"drop", "update"}
    \/ /\ pc[t] \in {"retrieve_post", "update_post", "update_failed"}
       /\ pc'[t] # pc[t]

\* C8: an entry is written only if its header passes verify(): a write-back,
\* in update or on release, of an entry whose header fails verify() leaves
\* every file as it was, and every file that holds what the Store wrote
\* holds an entry whose header satisfies the schema.
C8_VerifiedBeforeWrite ==
    /\ [](\A id \in Ids :
            lastWritten[id] # <<>>
            => /\ verify(lastWritten[id][1].header) = "Ok"
               /\ disk[id] = FileOf(to_str(lastWritten[id][1])))
    /\ [][\A t \in Threads :
            (WriteBackStep(t) /\ verify(WrittenBack(t).entry.header) # "Ok")
            => disk' = disk /\ lastWritten' = lastWritten]_vars

\* A release whose verify() failed left the file the Store had written before.
C8_Witness ==
    /\ ret.op \in {"drop", "update"} /\ ret.res = "MalformedEntry"
    /\ lastWritten[ret.id] # <<>>
    /\ disk[ret.id] = FileOf(to_str(lastWritten[ret.id][1]))

\* C9: when a post-create hook fails, create reports the failure, the handle
\* is still returned to the caller, and the slot stays Borrowed for it.
C9_PostCreateFailure ==
    (ret.op = "create" /\ ret.res = "PostHookExecuteError")
    => /\ pc[ret.t] = "idle"
       /\ KeepsHandle(ret.t, ret.id)
       /\ entries[ret.id] = "Borrowed"

HookFailed(r) == \E j \in 1..Len(r.calls) : ~r.calls[j].ok

\* C11: if a pre-create hook fails, create aborts with nothing persisted: no
\* slot is inserted, no file is created or changed, no handle is made, and no
\* post-create hook runs.
C11_PreCreateFailure ==
    [][\A t \in Threads, id \in Ids :
         ( /\ Returns(t, "create", id)
           /\ Len(ret'.hooks) >= 1
           /\ ret'.hooks[1].p = "pre_create"
           /\ HookFailed(ret'.hooks[1]) )
         => /\ ret'.res = "PreHookExecuteError"
            /\ Len(ret'.hooks) = 1
            /\ entries' = entries /\ disk' = disk /\ lastWritten' = lastWritten
            /\ held' = held /\ fle' = fle /\ pc' = pc
            /\ lockOwner' = lockOwner /\ poisoned' = poisoned]_vars

\* A create whose pre-create hook failed returned, and the Store has neither
\* a slot nor a file for the identifier.
C11_Witness ==
    /\ ret.op = "create" /\ ret.res = "PreHookExecuteError"
    /\ Len(ret.hooks) = 1 /\ HookFailed(ret.hooks[1])
    /\ entries[ret.id] = "Absent"
    /\ ~disk[ret.id].exists

\* C12: what is written through a handle and released is what is read back:
\* when the release of the handle of id wrote the entry and retrieve_copy(id)
\* is the next call to return, on a slot that nobody borrowed meanwhile, it
\* returns the entry that was released (content and header), unless the
\* read meets an I/O failure.
C12_ReadBackReleased ==
    [][\A t \in Threads, id \in Ids :
         ( /\ ret.op = "drop" /\ ret.res = "Ok" /\ ret.id = id
           /\ lastWritten[id] # <<>>
           /\ entries[id] = "Present"
           /\ ~poisoned
           /\ Returns(t, "retrieve_copy", id) )
         => \/ ret'.res = "IoError"
            \/ ret'.res = "Ok" /\ ret'.e = lastWritten[id]]_vars

\* C13: every call completes or returns an error: no caller blocks for ever on
\* the lock of the table, and no caller takes the write lock of the table
\* while it holds it.
C13_NoCallerBlocks ==
    /\ lockOwner = "none"
    /\ \A t \in Threads : pc[t] # "deadlocked"

\* C14: retrieve_copy(id) fails with IdLocked exactly when the slot of id is
\* Borrowed; otherwise it returns a copy of the entry as the file holds it (the
\* empty entry when there is no file, the error of the read or of the parse
\* when the file cannot be read or parsed), and the Store is as before.  (On a
\* poisoned lock it returns LockPoisoned.)
C14_RetrieveCopy ==
    [][\A t \in Threads, id \in Ids :
         (Returns(t, "retrieve_copy", id) /\ ~poisoned)
         => /\ (ret'.res = "IdLocked") <=> (entries[id] = "Borrowed")
            /\ (entries[id] # "Borrowed" /\ ~disk[id].exists)
               => (ret'.res = "Ok" /\ ret'.e = <<EntryNew>>)
            /\ (entries[id] # "Borrowed" /\ disk[id].exists)
               => \/ ret'.res = "IoError"
                  \/ /\ ret'.res = from_str(disk[id]).res
                     /\ ret'.res = "Ok" => ret'.e = <<from_str(disk[id]).entry>>
            /\ entries' = entries /\ disk' = disk /\ held' = held /\ fle' = fle]_vars

\* retrieve_copy returned the entry of the file of a slot that is Present.
C14_Witness ==
    /\ ret.op = "retrieve_copy" /\ ret.res = "Ok"
    /\ entries[ret.id] = "Present"
    /\ disk[ret.id].exists
    /\ ret.e = <<from_str(disk[ret.id]).entry>>
    /\ ret.e # <<EntryNew>>

\* The step is a step of retrieve(id) by t that got past the pre-retrieve
\* hooks and the lock of the table.
RetrieveLoads(t, id) ==
    /\ Idle(t)
    /\ \/ pc'[t] = "retrieve_post" /\ fle'[t][1].key = id
       \/ /\ Returns(t, "retrieve", id)
          /\ ret'.res \notin {"PreHookExecuteError", "LockPoisoned"}

\* C15: retrieve(id) for an identifier without a file succeeds with a handle
\* to the empty entry (default header, empty content) and the slot Borrowed;
\* a load that fails for another reason than the missing file makes retrieve
\* return that error and no handle.
C15_RetrieveWithoutFile ==
    [][\A t \in Threads, id \in Ids :
         /\ (RetrieveLoads(t, id) /\ ~disk[id].exists /\ entries[id] # "Borrowed")
            => /\ pc'[t] = "retrieve_post"
               /\ fle'[t] = <<Handle(id, EntryNew)>>
               /\ entries'[id] = "Borrowed"
         /\ (RetrieveLoads(t, id) /\ Returns(t, "retrieve", id))
            => /\ disk[id].exists \/ entries[id] = "Borrowed"
               /\ ret'.res \in {"IoError", "MalformedEntry", "EntryAlreadyBorrowed"}
               /\ fle' = fle /\ held' = held /\ pc' = pc]_vars

\* retrieve returned the handle of the empty entry for an identifier that has
\* no file.
C15_Witness ==
    /\ ret.op = "retrieve" /\ ret.res = "Ok"
    /\ held[ret.t] = <<Handle(ret.id, EntryNew)>>
    /\ ~disk[ret.id].exists
    /\ entries[ret.id] = "Borrowed"

C17_HookErrorKind ==
    \A j \in 1..Len(ret.hooks) :
        (HookFailed(ret.hooks[j]) /\ ret.res # "AssertionFailed")
        => ret.res = IF ret.hooks[j].p \in {"pre_create", "pre_retrieve", "pre_update",
                                            "pre_delete"}
                     THEN "PreHookExecuteError"
                     ELSE "PostHookExecuteError"

\* C18: register_hook with an aspect name that is not configured for the
\* lifecycle point fails with AspectNameNotFoundError.
C18_UnknownAspect ==
    (regRet.p # "none" /\ regRet.name \notin 1..NumAspects)
    => regRet.res = "AspectNameNotFoundError"

\* The pre-point of a call that has one.
PrePoint(op) ==
    CASE op = "create" -> "pre_create"
      [] op = "retrieve" -> "pre_retrieve"
      [] op = "update" -> "pre_update"
      [] op = "delete" -> "pre_delete"
      [] OTHER -> "none"

\* C19: when a lock of the Store is poisoned, the lock of the table or the
\* mutex of a list of aspects, a later call of create, retrieve, update,
\* delete or retrieve_copy returns LockPoisoned (or the error of a pre-hook
\* that failed before the lock was looked at); it does not panic and does not
\* change the table.
C19_PoisonedLock ==
    [][\A t \in Threads, id \in Ids :
       \A op \in {"create", "retrieve", "update", "delete", "retrieve_copy"} :
         ( /\ Idle(t)
           /\ poisoned \/ PrePoint(op) \in aspectPoisoned
           /\ Returns(t, op, id) )
         => /\ \/ ret'.res = "LockPoisoned"
               \/ /\ ret'.res = "PreHookExecuteError"
                  /\ Len(ret'.hooks) = 1 /\ HookFailed(ret'.hooks[1])
            /\ entries' = entries
            /\ pc'[t] = "idle"]_vars

\* C20: serialisation round-trips: for every entry whose header passes
\* verify() and every content, lines that are exactly --- included,
\* from_str(to_str(e)) succeeds and yields the header and the content of e.
C20_RoundTrip ==
    (rt.phase = "parsed" /\ verify(rt.e.header) = "Ok")
    => (rt.out.res = "Ok" /\ rt.out.entry = rt.e)

\* C30: delete(id) on an identifier that is not Borrowed runs the pre-delete
\* hooks, removes the slot, removes the file and runs the post-delete hooks,
\* in this order: a delete that its pre-delete hooks (or a poisoned lock) stop
\* removes nothing; one that goes on leaves no slot; if the removal of the
\* file fails, FileError is returned, the slot stays removed, the file is as
\* it was and no post-delete hook runs; the post-delete hooks run only after
\* the file was removed.
C30_DeleteOrder ==
    [][\A t \in Threads, id \in Ids :
         (Returns(t, "delete", id) /\ entries[id] # "Borrowed")
         => /\ Len(ret'.hooks) >= 1
            /\ ret'.hooks[1].p = "pre_delete"
            /\ IF HookFailed(ret'.hooks[1]) \/ "pre_delete" \in aspectPoisoned \/ poisoned
               THEN /\ ret'.res \in {"PreHookExecuteError", "LockPoisoned"}
                    /\ Len(ret'.hooks) = 1
                    /\ entries' = entries /\ disk' = disk
               ELSE /\ entries'[id] = "Absent"
                    /\ ~disk[id].exists => ret'.res = "FileError"
                    /\ \/ /\ ret'.res = "FileError"
                          /\ Len(ret'.hooks) = 1
                          /\ disk' = disk
                       \/ /\ ret'.res # "FileError"
                          /\ disk[id].exists
                          /\ disk'[id] = NoFile
                          /\ Len(ret'.hooks) = 2
                          /\ ret'.hooks[2].p = "post_delete"]_vars

\* C30 happens: a delete whose pre-delete hooks passed returned FileError; the
\* slot is gone, the file is still there and no post-delete hook ran.
C30_Witness ==
    /\ ret.op = "delete" /\ ret.res = "FileError"
    /\ Len(ret.hooks) = 1 /\ ~HookFailed(ret.hooks[1])
    /\ entries[ret.id] = "Absent"
    /\ disk[ret.id].exists /\ disk[ret.id] # EmptyFile
    /\ lastWritten[ret.id] # <<>>

\* C31: per identifier the slot goes from absent to Borrowed or Present and is
\* removed only by delete: release and update never evict it, the release of
\* a handle leaves the slot Present, and a slot is evicted (so that create can
\* succeed again) only by a delete that succeeds.
C31_SlotLifecycle ==
    [][\A id \in Ids :
         /\ (entries[id] # "Absent" /\ entries'[id] = "Absent")
            => \E t \in Threads : Returns(t, "delete", id) /\ ret'.res = "Ok"
         /\ \A t \in Threads :
                Returns(t, "drop", id) => entries'[id] = "Present"
         /\ \A t \in Threads :
                (Returns(t, "create", id) /\ ret'.res = "Ok") => entries[id] = "Absent"]_vars

\* C32: a retrieve(id) that returns an error leaves the status of the slot of
\* id as it was before the call, and never leaves a slot Borrowed for which no
\* handle was handed out.
C32_FailedRetrieveStatus ==
    [][\A t \in Threads, id \in Ids :
         (Returns(t, "retrieve", id) /\ ret'.res # "Ok")
         => /\ pc[t] = "idle" => entries'[id] = entries[id]
            /\ entries'[id] = "Borrowed" => \E u \in Threads : KeepsHandle(u, id)']_vars

\* C33: a retrieve(id) that returns an error creates no file and modifies no
\* file.
C33_FailedRetrieveFiles ==
    [][\A t \in Threads, id \in Ids :
         (Returns(t, "retrieve", id) /\ ret'.res # "Ok") => disk' = disk]_vars

\* C34: create never destroys stored data: when a file of id is on disk and
\* the Store has no slot for id, create(id) followed by the release of its
\* handle does not replace the content of the file with a fresh empty entry.
C34_CreateKeepsFile ==
    [][\A t \in Threads, id \in Ids :
         ( /\ ret.op = "create" /\ ret.res = "Ok" /\ ret.t = t /\ ret.id = id
           /\ Returns(t, "drop", id)
           /\ held[t] = <<Handle(id, EntryNew)>>
           /\ disk[id].exists
           /\ from_str(disk[id]).res = "Ok"
           /\ from_str(disk[id]).entry # EntryNew )
         => disk'[id] # FileOf(to_str(EntryNew))]_vars

\* C40: retrieve_copy(id) is read-only: whether it succeeds or fails it
\* inserts no slot, changes no status and writes no file; for an identifier
\* with neither slot nor file it returns an empty Entry.
C40_RetrieveCopyReadOnly ==
    [][\A t \in Threads, id \in Ids :
         Returns(t, "retrieve_copy", id)
         => /\ entries' = entries /\ disk' = disk /\ lastWritten' = lastWritten
            /\ held' = held /\ fle' = fle
            /\ (entries[id] = "Absent" /\ ~disk[id].exists /\ ~poisoned)
               => ret'.res = "Ok" /\ ret'.e = <<EntryNew>>]_vars

\* C40 happens: retrieve_copy returned an empty Entry for an identifier that
\* still has neither slot nor file.
C40_Witness ==
    /\ ret.op = "retrieve_copy" /\ ret.res = "Ok" /\ ret.e = <<EntryNew>>
    /\ entries[ret.id] = "Absent"
    /\ ~disk[ret.id].exists

\* C35: move_by_id(old, new) never leaves a stale slot: when old has a slot
\* the call evicts or reloads it before it renames the file and returns a
\* result, so that no slot of old is left for a file that was moved away; when
\* old has no slot the file is renamed and the table is unchanged.
C35_MoveById ==
    (mv.res \notin {"none", "LockPoisoned"}) =>
        IF mv.was[mv.old] # "Absent"
        THEN /\ mv.res # "panic"
             /\ ~mv.disk[mv.old].exists => mv.entries[mv.old] = "Absent"
             /\ (mv.had[mv.old].exists /\ mv.io = "ok")
                => mv.disk[mv.new] = mv.had[mv.old] /\ ~mv.disk[mv.old].exists
        ELSE /\ mv.entries = mv.was
             /\ IF mv.had[mv.old].exists /\ mv.io = "ok"
                THEN mv.disk[mv.new] = mv.had[mv.old] /\ ~mv.disk[mv.old].exists
                ELSE mv.disk = mv.had

(***************************************************************************)
(* The header.                                                             *)
(***************************************************************************)
\* imag is there and holds a table.
MainOk(t) == "imag" \in DOMAIN t /\ t["imag"].k = "Table"

\* imag.version is a string that parses as a semantic version.
VersionOk(t) ==
    /\ MainOk(t)
    /\ "version" \in DOMAIN t["imag"].v
    /\ t["imag"].v["version"].k = "String"
    /\ VersionParses(t["imag"].v["version"].v)

\* Every other top-level key holds a table.
OthersOk(t) == \A key \in DOMAIN t \ {"imag"} : t[key].k = "Table"

\* The schema of a header: the root a table with the three conditions.
SchemaHolds(h) == h.k = "Table" /\ MainOk(h.v) /\ VersionOk(h.v) /\ OthersOk(h.v)

\* C21: verify() succeeds if and only if the root is a table that contains
\* imag as a table, imag.version is a string that parses as a semantic
\* version and every other top-level key holds a table; otherwise the caller
\* gets MalformedEntry, whose cause is MissingMainSection (imag missing or not
\* a table), MissingVersionInfo (version absent, not a string or unparsable)
\* or NonTableInBaseTable (a top-level value that is not a table).
C21_VerifyIffSchema ==
    vf.phase = "verified" =>
        /\ (vf.res = "Ok") <=> SchemaHolds(vf.h)
        /\ vf.res # "Ok" =>
            /\ vf.res = "MalformedEntry"
            /\ \/ vf.cause = "MissingMainSection" /\ ~MainOk(vf.h.v)
               \/ vf.cause = "MissingVersionInfo" /\ MainOk(vf.h.v) /\ ~VersionOk(vf.h.v)
               \/ vf.cause = "NonTableInBaseTable" /\ ~OthersOk(vf.h.v)

\* C21 happens: a table with a valid imag section and a top-level value that
\* is not a table was verified and refused.
C21_Witness ==
    /\ vf.phase = "verified"
    /\ MainOk(vf.h.v) /\ VersionOk(vf.h.v) /\ ~OthersOk(vf.h.v)
    /\ vf.res = "MalformedEntry"
    /\ vf.cause = "NonTableInBaseTable"

\* C22: a header made by new() or by parsing keeps the schema through every
\* sequence of read, insert, set and delete: the root is a table that holds
\* the table imag with a valid semantic version under version, and every
\* other top-level key holds a table.
C22_SchemaKept == SchemaHolds(hd.header)

\* The value a path leads to in v, as an Option: a key leads into a table
\* that has it, a number into an array that is longer than it.
RECURSIVE ValueAt(_, _)
ValueAt(v, spec) ==
    IF spec = <<>> THEN <<v>>
    ELSE IF v.k = "Table"
    THEN IF Head(spec) \in DOMAIN v.v THEN ValueAt(v.v[Head(spec)], Tail(spec)) ELSE <<>>
    ELSE IF v.k = "Array" /\ (\E n \in 1..Len(v.v) : Numerals[n] = Head(spec))
    THEN ValueAt(v.v[CHOOSE n \in 1..Len(v.v) : Numerals[n] = Head(spec)], Tail(spec))
    ELSE <<>>

\* The header h holds the array a.array.
HasArray(h) == ValueAt(h, <<"a", "array">>) # <<>> /\ ValueAt(h, <<"a", "array">>)[1].k = "Array"

\* The elements of a.array.
ArrayOf(h) == ValueAt(h, <<"a", "array">>)[1].v

\* The header h with the elements a in a.array.
WithElements(h, a) == [h EXCEPT !.v["a"].v["array"].v = a]

\* The last call was op("a.array.<index>", ..) on a header with the array.
OnArray(op) ==
    /\ hd.op = op
    /\ Len(hd.spec) = 3 /\ hd.spec[1] = "a" /\ hd.spec[2] = "array"
    /\ usize_from_str(hd.spec[3]) # <<>>
    /\ HasArray(hd.before)

\* The index of that call.
DestIndex == (CHOOSE n \in 1..Len(Numerals) : Numerals[n] = hd.spec[3]) - 1

\* The sequence a without its element at index i.
Without(a, i) == SubSeq(a, 1, i) \o SubSeq(a, i + 2, Len(a))

\* C23: read(path) with an array index as last token returns the element at
\* the index when the index is below the length of the array and Ok(None) for
\* every index at or beyond the length, without panicking; read never changes
\* the header.
C23_ReadIndex ==
    /\ hd.op = "read" => hd.header = hd.before
    /\ OnArray("read") =>
        /\ hd.res = "Ok"
        /\ hd.val = IF DestIndex < Len(ArrayOf(hd.before))
                    THEN <<ArrayOf(hd.before)[DestIndex + 1]>>
                    ELSE <<>>

\* C24: insert never overwrites: when a value is at the destination (the key
\* is in the table, or the index is within the array), insert returns
\* Ok(false) and the header is as it was before the call.
C24_InsertKeeps ==
    hd.op = "insert" /\ ValueAt(hd.before, hd.spec) # <<>> =>
        /\ hd.res = "Ok"
        /\ hd.val = <<FALSE>>
        /\ hd.header = hd.before

\* C24 happens: insert was called with an index within an array of two or
\* more elements and returned Ok(false).
C24_Witness ==
    /\ OnArray("insert")
    /\ Len(ArrayOf(hd.before)) >= 2
    /\ DestIndex < Len(ArrayOf(hd.before))
    /\ hd.res = "Ok"
    /\ hd.val = <<FALSE>>

\* C25: insert(path, v) with an array index at which no element is (any index
\* at or beyond the length) appends v to the array and returns Ok(true): the
\* array grows by one element, the earlier elements stay, nothing panics.
C25_InsertAppends ==
    OnArray("insert") /\ DestIndex >= Len(ArrayOf(hd.before)) =>
        /\ hd.res = "Ok"
        /\ hd.val = <<TRUE>>
        /\ hd.header = WithElements(hd.before, Append(ArrayOf(hd.before), hd.arg[1]))

\* C26: set(path, v) with an array index within bounds returns the element
\* that was at the index; afterwards read(path) gives v, the array is as long
\* as before and every other element is at its index with its value.
C26_SetWithinBounds ==
    OnArray("set") /\ DestIndex < Len(ArrayOf(hd.before)) =>
        /\ hd.res = "Ok"
        /\ hd.val = <<ArrayOf(hd.before)[DestIndex + 1]>>
        /\ hd.header = WithElements(hd.before,
                           [ArrayOf(hd.before) EXCEPT ![DestIndex + 1] = hd.arg[1]])
        /\ read_with_sep(hd.header, hd.spec).res = "Ok"
        /\ read_with_sep(hd.header, hd.spec).val = hd.arg

\* C26 happens: set replaced an element that was not the last of its array.
C26_Witness ==
    /\ OnArray("set")
    /\ DestIndex + 1 < Len(ArrayOf(hd.before))
    /\ hd.res = "Ok"
    /\ hd.val = <<ArrayOf(hd.before)[DestIndex + 1]>>
    /\ ArrayOf(hd.header)[DestIndex + 1] = hd.arg[1]

\* C27: set(path, v) with an array index that is not within bounds (any index
\* at or beyond the length) returns Ok(None) and leaves v appended as the last
\* element, the earlier elements unchanged.
C27_SetBeyondBounds ==
    OnArray("set") /\ DestIndex >= Len(ArrayOf(hd.before)) =>
        /\ hd.res = "Ok"
        /\ hd.val = <<>>
        /\ hd.header = WithElements(hd.before, Append(ArrayOf(hd.before), hd.arg[1]))

C29_VersionedPath ==
    mp.res # "none" =>
        IF VersionParses(mp.ver)
        THEN /\ mp.res = "Ok"
             /\ mp.dir = <<mp.name>> \o Front(mp.pa)
             /\ mp.file = <<Last(mp.pa), "~">> \o mp.ver
        ELSE mp.res = "InvalidVersion"

\* The last piece of the path of the last call is a number.
NumericDest == \E n \in 1..Len(Numerals) : Numerals[n] = Last(hd.spec)

\* The parent of the destination of the last call, as an Option.
Parent == ValueAt(hd.before, Front(hd.spec))

\* C36: insert, set and delete return HeaderPathTypeFailure and leave the
\* header unchanged when the parent of the destination is not the container
\* the last token asks for: an index and the parent is not an array, or a key
\* and the parent is not a table.  A numeric token is an index also when the
\* container is a table.
C36_WrongContainer ==
    ( /\ hd.op \in {"insert", "set", "delete"}
      /\ Parent # <<>>
      /\ IF NumericDest THEN Parent[1].k # "Array" ELSE Parent[1].k # "Table" )
    => /\ hd.res = "HeaderPathTypeFailure"
       /\ hd.header = hd.before

\* C36 happens: insert with a number as last piece was refused on a parent
\* that is a table.
C36_Witness ==
    /\ hd.op = "insert" /\ hd.spec = <<"a", "1">>
    /\ Parent # <<>> /\ Parent[1].k = "Table"
    /\ hd.res = "HeaderPathTypeFailure"
    /\ hd.header = hd.before

\* The header v with w under the key the path leads to through tables, and
\* without that key.
RECURSIVE Put(_, _, _)
Put(v, spec, w) ==
    IF Len(spec) = 1
    THEN TTable([key \in DOMAIN v.v \cup {spec[1]} |-> IF key = spec[1] THEN w ELSE v.v[key]])
    ELSE TTable([key \in DOMAIN v.v |->
                    IF key = spec[1] THEN Put(v.v[key], Tail(spec), w) ELSE v.v[key]])

RECURSIVE Cut(_, _)
Cut(v, spec) ==
    IF Len(spec) = 1
    THEN TTable([key \in DOMAIN v.v \ {spec[1]} |-> v.v[key]])
    ELSE TTable([key \in DOMAIN v.v |->
                    IF key = spec[1] THEN Cut(v.v[key], Tail(spec)) ELSE v.v[key]])

\* The destination of the last call is a key of a table that is there.
TableDest == ~NumericDest /\ Parent # <<>> /\ Parent[1].k = "Table"

\* C37: for a destination that is a table key, set returns the previous value
\* (None when the key was absent) and a following read gives v; insert on an
\* absent key returns true and a following read gives v; delete returns the
\* removed value and a following read gives None; no other key changes.
C37_TableKey ==
    /\ (hd.op = "set" /\ TableDest)
       => /\ hd.res = "Ok"
          /\ hd.val = ValueAt(hd.before, hd.spec)
          /\ hd.header = Put(hd.before, hd.spec, hd.arg[1])
          /\ read_with_sep(hd.header, hd.spec).res = "Ok"
          /\ read_with_sep(hd.header, hd.spec).val = hd.arg
    /\ (hd.op = "insert" /\ TableDest /\ ValueAt(hd.before, hd.spec) = <<>>)
       => /\ hd.res = "Ok"
          /\ hd.val = <<TRUE>>
          /\ hd.header = Put(hd.before, hd.spec, hd.arg[1])
          /\ read_with_sep(hd.header, hd.spec).res = "Ok"
          /\ read_with_sep(hd.header, hd.spec).val = hd.arg
    /\ (hd.op = "delete" /\ TableDest)
       => /\ hd.res = "Ok"
          /\ hd.val = ValueAt(hd.before, hd.spec)
          /\ hd.header = Cut(hd.before, hd.spec)
          /\ read_with_sep(hd.header, hd.spec).res = "Ok"
          /\ read_with_sep(hd.header, hd.spec).val = <<>>

\* C37 happens: set replaced imag.version, returned the version that was
\* there, and imag.links is still in the section.
C37_Witness ==
    /\ hd.op = "set" /\ hd.spec = <<"imag", "version">>
    /\ hd.res = "Ok"
    /\ hd.val = <<TString(version)>>
    /\ ValueAt(hd.header, hd.spec) = hd.arg
    /\ ValueAt(hd.header, <<"imag", "links">>) # <<>>

\* A piece before the last one names a key that a table on the way lacks.
MissingOnTheWay ==
    \E j \in 1..(Len(hd.spec) - 1) :
        /\ ValueAt(hd.before, SubSeq(hd.spec, 1, j - 1)) # <<>>
        /\ ValueAt(hd.before, SubSeq(hd.spec, 1, j - 1))[1].k = "Table"
        /\ usize_from_str(hd.spec[j]) = <<>>
        /\ hd.spec[j] \notin DOMAIN ValueAt(hd.before, SubSeq(hd.spec, 1, j - 1))[1].v

\* C38: insert and set do not create intermediate containers: when a token
\* before the last one names a table key that is not there, the call fails
\* with HeaderKeyNotFound and the header is unchanged.
C38_NoIntermediate ==
    (hd.op \in {"insert", "set"} /\ MissingOnTheWay)
    => /\ hd.res = "HeaderKeyNotFound"
       /\ hd.header = hd.before

\* C38 happens: insert of b.k into a header without b was refused.
C38_Witness ==
    /\ hd.op = "insert" /\ hd.spec = <<"b", "k">>
    /\ ValueAt(hd.before, <<"b">>) = <<>>
    /\ hd.res = "HeaderKeyNotFound"
    /\ ValueAt(hd.header, <<"b">>) = <<>>

\* The lines of the text read last that are the delimiter.
Dashes == {i \in 1..Len(rt.text.lines) : rt.text.lines[i] = "---"}

\* C39: every Entry that from_str returns Ok has a header that verify()
\* accepts, and that header is the document between two --- lines of the
\* text; a text without an opening or without a closing --- line, and a text
\* whose header does not parse or does not satisfy the schema, gives
\* MalformedEntry.
C39_ParsedVerifies ==
    rt.phase = "read" =>
        /\ rt.out.res \in {"Ok", "MalformedEntry"}
        /\ rt.out.res = "Ok"
           => /\ verify(rt.out.entry.header) = "Ok"
              /\ \E i, j \in Dashes :
                    /\ i < j
                    /\ toml_parse(SubSeq(rt.text.lines, i + 1, j - 1)) # <<>>
                    /\ rt.out.entry.header =
                           TTable(toml_parse(SubSeq(rt.text.lines, i + 1, j - 1))[1])
        /\ Cardinality(Dashes) < 2 => rt.out.res = "MalformedEntry"

\* C39 happens: a text with a header and a content was read as an entry whose
\* header verifies.
C39_Witness ==
    /\ rt.phase = "read"
    /\ rt.out.res = "Ok"
    /\ verify(rt.out.entry.header) = "Ok"
    /\ rt.out.entry.content # <<>>

====
